---- MODULE Spec2Model ----
(***************************************************************************)
(* Attendance system: the Apps Script backend (Code.gs), the teacher app's *)
(* SessionScreen / HomeScreen, and the student app's login and scanner.    *)
(*                                                                         *)
(* Time is in milliseconds, as in the source.  The clock moves in steps of *)
(* TickMs (half a session) and may jump by the retention window.           *)
(* Text values (session names, e-mails) are sequences of one-character     *)
(* strings so that trim() and toLowerCase() are computed, not assumed.     *)
(***************************************************************************)
EXTENDS Integers, Sequences, FiniteSets, TLC

\* ---------------------------------------------------------------- bounds
MaxTicks == 2
MaxSessions == 2
MaxRows == 2

\* ------------------------------------------------------ program constants
SESSION_DURATION_MS == 10 * 60 * 1000
RETENTION_MS == 2 * 24 * 60 * 60 * 1000
TickMs == 5 * 60 * 1000
MaxNow == MaxTicks * TickMs

\* ------------------------------------------------------------ input sets
NameInputs == { <<>>, <<" ">>, <<" ", "A">>, <<"B">> }
EmailInputs == { <<>>, <<" ", "A">>, <<"b">> }
\* e-mails that differ in letter case and surrounding blanks only
CaseEmailInputs == { <<"a">>, <<"A">>, <<" ", "A">>, <<"C">>, <<"b">> }

StudentNameInputs == { <<>>, <<"n">> }
\* two doPost executions of handleStudentSubmission may overlap
Reqs == {1, 2}

\* history: the devices web-form requests come from (no parameter of the
\* request names the device)
Devices == {"d1", "d2"}

\* the session codes the student API is exercised with
Codes == {1, 2}
Sids == 1..MaxSessions

\* ------------------------------------------------------- text primitives
RECURSIVE TrimLeft(_)
TrimLeft(s) == IF s = <<>> THEN s
               ELSE IF Head(s) = " " THEN TrimLeft(Tail(s)) ELSE s

RECURSIVE TrimRight(_)
TrimRight(s) == IF s = <<>> THEN s
                ELSE IF s[Len(s)] = " " THEN TrimRight(SubSeq(s, 1, Len(s) - 1))
                ELSE s

Trim(s) == TrimRight(TrimLeft(s))

LowerChar(c) == CASE c = "A" -> "a"
                  [] c = "B" -> "b"
                  [] OTHER -> c

ToLowerCase(s) == [i \in 1..Len(s) |-> LowerChar(s[i])]

VARIABLES
    now,            \* Date.now()
    currentSession, \* script property 'currentSession' (Code.gs)
    sheet,          \* data rows of the 'Attendance' sheet, in append order
    nextSid,        \* history: number of the next session to be started
    req,            \* web-form submissions being handled by doPost
    screen,         \* the teacher's SessionScreen (React state)
    stopReqs,       \* stop requests sent by the app, not yet answered
    stopsSent,      \* history: stop requests sent per session screen
    notified,       \* history: 'closed' alerts shown per session screen
    ev,             \* history: the last operation and its result
    storage,        \* AsyncStorage 'student_user' of each phone
    bindingTable,   \* attendance server: the device bindings
    nSessions,      \* attendance server: state of each session code
    nLedger,        \* attendance server: accepted submissions, in order
    nev,            \* history: the last student-API call and its result
    nTimes,         \* attendance server: creation and stop time of each session
    hist,           \* the teacher's HistoryScreen (React state)
    scanner         \* the student's StudentScannerScreen (React state, awaits)

appVars == << now, currentSession, sheet, nextSid, req, screen, stopReqs,
              stopsSent, notified, ev, scanner >>

histVars == << nTimes, hist >>

nodeVars == << storage, bindingTable, nSessions, nLedger, nev, nTimes, hist,
               scanner >>

\* everything but the student's scanner screen
restVars == << now, currentSession, sheet, nextSid, req, screen, stopReqs,
               stopsSent, notified, ev, storage, bindingTable, nSessions,
               nLedger, nev, nTimes, hist >>

vars == << now, currentSession, sheet, nextSid, req, screen, stopReqs,
           stopsSent, notified, ev, storage, bindingTable, nSessions,
           nLedger, nev, nTimes, hist, scanner >>

\* ------------------------------------------------ Code.gs: session state
\* getSessionState() returns null when the property is absent.
NullSession == [present |-> FALSE, hasName |-> FALSE, sessionName |-> <<>>,
                startedAt |-> 0, active |-> FALSE, sid |-> 0]

\* mutant of StartNameInvalid: the guard without trim()
StartNameInvalidNoTrim(sessionName) == sessionName = <<>>

\* startSession: the guard on a missing or blank sessionName
StartNameInvalid(sessionName) == sessionName = <<>> \/ Trim(sessionName) = <<>>

\* startSession: the object handed to setSessionState
StartedState(sessionName, t, sid) ==
    [present |-> TRUE, hasName |-> TRUE, sessionName |-> Trim(sessionName),
     startedAt |-> t, active |-> TRUE, sid |-> sid]

\* mutant of StoppedState: stop toggles the flag instead of clearing it
StoppedStateToggle(session) ==
    [session EXCEPT !.present = TRUE, !.active = ~session.active]

\* stopSession: setSessionState({ ...session, active: false })
StoppedState(session) == [session EXCEPT !.present = TRUE, !.active = FALSE]

\* `!session || !session.active` negated
SessionOpen(session) == session.present /\ session.active

NoEv == [op |-> "init", sid |-> 0, arg |-> <<>>, res |-> "none"]

StepEv == [op |-> "step", sid |-> 0, arg |-> <<>>, res |-> "none"]

IdleReq == [pc |-> "idle", email |-> <<>>, sessionName |-> <<>>, sid |-> 0,
            device |-> "none", raw |-> <<>>]

NoScreen == [mounted |-> FALSE, sid |-> 0, endTime |-> 0, isActive |-> FALSE,
             closing |-> FALSE, dialog |-> FALSE]

\* ------------------------------------------ student app: device identity
\* The phones in the classroom: two of the same model on the same OS build,
\* one on another build.  osInternalBuildId is empty where the platform
\* does not report it.
Phones == {"p1", "p2", "p3"}

PlatformOS(p) == "android"

osInternalBuildId(p) == IF p = "p3" THEN "" ELSE "AP1A.240505"

osBuildId(p) == IF p = "p3" THEN "TQ3A.230805" ELSE "AP1A.240505"

\* Platform.OS + '-' + (Device.osInternalBuildId || Device.osBuildId)
hardwareId(p) ==
    << PlatformOS(p), "-",
       IF osInternalBuildId(p) # "" THEN osInternalBuildId(p) ELSE osBuildId(p) >>

\* Crypto.digestStringAsync(SHA256, hardwareId): distinct inputs give
\* distinct digests
Sha256(x) == << "sha256" >> \o x

deviceId(p) == Sha256(hardwareId(p))

NoStudent == [saved |-> FALSE, email |-> <<>>, deviceId |-> <<>>]

NoNev == [op |-> "init", code |-> 0, identity |-> <<>>, fp |-> <<>>,
          from |-> "none", res |-> "none"]

NoTimes == [createdAt |-> 0, stopped |-> FALSE, stoppedAt |-> 0]

NoHistory == [mounted |-> FALSE, sessions |-> {}, selectMode |-> FALSE,
              selected |-> {}, now |-> 0]

\* StudentScannerScreen: the handlers that are running.  A run is an
\* accepted scan on its way through processImageWithServer / processQRData.
Tasks == {1, 2}

IdleTask == [pc |-> "idle", via |-> "none", data |-> <<>>]

\* useState initial values of StudentScannerScreen; `picker` is the pending
\* ImagePicker.launch...Async call of a button handler
NoScanner == [hasPermission |-> "null", studentInfo |-> FALSE,
              scanned |-> FALSE,
              message |-> "Aim camera at the Teacher's QR Code",
              picker |-> "none", tasks |-> [t \in Tasks |-> IdleTask]]

Init ==
    /\ now = 0
    /\ currentSession = NullSession
    /\ sheet = <<>>
    /\ nextSid = 1
    /\ req = [r \in Reqs |-> IdleReq]
    /\ screen = NoScreen
    /\ stopReqs = {}
    /\ stopsSent = [s \in Sids |-> 0]
    /\ notified = [s \in Sids |-> 0]
    /\ ev = NoEv
    /\ storage = [p \in Phones |-> NoStudent]
    /\ bindingTable = {}
    /\ nSessions = [c \in Codes |-> "None"]
    /\ nLedger = {}
    /\ nev = NoNev
    /\ nTimes = [c \in Codes |-> NoTimes]
    /\ hist = NoHistory
    /\ scanner = NoScanner

\* The SessionScreen interval (1 s) fires before the clock moves on.
TimerDue == screen.mounted /\ screen.isActive /\ now >= screen.endTime

Advance(d) ==
    /\ ~TimerDue
    /\ now + d <= MaxNow + (IF d = RETENTION_MS THEN d ELSE 0)
    /\ d = RETENTION_MS => now < RETENTION_MS
    /\ now' = now + d
    /\ ev' = StepEv
    /\ UNCHANGED << currentSession, sheet, nextSid, req, screen, stopReqs,
                    stopsSent, notified >>
    /\ UNCHANGED nodeVars

ClockTick == Advance(TickMs)

ClockJump == Advance(RETENTION_MS)

\* --------------------------------------- Code.gs: startSession / stopSession
\* mutant of ServerStart: the session is written before the name is checked
ServerStartWriteFirst(sessionName) ==
    /\ currentSession' = StartedState(sessionName, now, nextSid)
    /\ nextSid' = nextSid + 1
    /\ ev' = [op |-> "start", sid |-> nextSid, arg |-> sessionName,
              res |-> IF StartNameInvalid(sessionName) THEN "InvalidInput"
                      ELSE "success"]

\* doPost {action:'startSession'}: the whole of startSession(sessionName).
ServerStart(sessionName) ==
    IF StartNameInvalid(sessionName)
    THEN /\ currentSession' = currentSession
         /\ nextSid' = nextSid
         /\ ev' = [op |-> "start", sid |-> 0, arg |-> sessionName,
                   res |-> "InvalidInput"]
    ELSE /\ currentSession' = StartedState(sessionName, now, nextSid)
         /\ nextSid' = nextSid + 1
         /\ ev' = [op |-> "start", sid |-> nextSid, arg |-> sessionName,
                   res |-> "success"]

\* A start request from any client (the server sees the name as sent).
ApiStartSession(sessionName) ==
    /\ nextSid <= MaxSessions
    /\ ServerStart(sessionName)
    /\ UNCHANGED << now, sheet, req, screen, stopReqs, stopsSent, notified >>
    /\ UNCHANGED nodeVars

\* doPost {action:'stopSession'} sent by a client that is not the tracked
\* SessionScreen; it means the session that is current when it is sent.
ApiStopSession ==
    /\ currentSession' = StoppedState(currentSession)
    /\ ev' = [op |-> "stop", sid |-> currentSession.sid, arg |-> <<>>,
              res |-> IF SessionOpen(currentSession) THEN "stopped" ELSE "noop"]
    /\ UNCHANGED << now, sheet, nextSid, req, screen, stopReqs, stopsSent,
                    notified >>
    /\ UNCHANGED nodeVars

\* ------------------------------------------- Code.gs: roll number lookup
\* The 'RollMap' sheet below its header row: << e-mail cell, roll cell >>.
RollMap == << << <<"A", " ">>, "21ME001" >>, << <<"c">>, "21ME002" >> >>

RECURSIVE LookupFrom(_, _)
LookupFrom(i, email) ==
    IF i > Len(RollMap) THEN "NOT FOUND"
    ELSE IF Trim(ToLowerCase(RollMap[i][1])) = email THEN RollMap[i][2]
    ELSE LookupFrom(i + 1, email)

\* what the handler finds when it opens the roll map: the sheet ("ok"), no
\* ROLL_MAP_ID property ("NO MAP"), or an exception ("LOOKUP ERROR")
RollMapStates == {"ok", "NO MAP", "LOOKUP ERROR"}

\* mutant of lookupRollNumber: a failed lookup yields an empty cell
lookupRollNumberEmpty(email, map) ==
    IF map = "ok" /\ LookupFrom(1, email) # "NOT FOUND"
    THEN LookupFrom(1, email) ELSE ""

lookupRollNumber(email, map) ==
    IF map = "NO MAP" THEN "NO MAP"
    ELSE IF map = "LOOKUP ERROR" THEN "LOOKUP ERROR"
    ELSE LookupFrom(1, email)

\* --------------------------------- Code.gs: handleStudentSubmission steps
\* The handler reads the session property, then reads the sheet, then
\* appends; doPost executions overlap, so the three accesses are steps.
\* mutant of NormEmail: the e-mail keeps the case it was typed in
NormEmailKeepCase(raw) == Trim(raw)

NormEmail(raw) == ToLowerCase(Trim(raw))

\* the duplicate scan over the rows read from the sheet
HasDuplicate(data, email, sessionName) ==
    \E i \in 1..Len(data) :
        ToLowerCase(data[i].email) = email /\ data[i].sessionName = sessionName

SubmitBegin(r, rawEmail, rawName, device) ==
    /\ req[r].pc = "idle"
    /\ \A q \in 1..(r - 1) : req[q].pc # "idle"
    /\ LET email == NormEmail(rawEmail)
           name == Trim(rawName)
       IN IF email = <<>> \/ name = <<>>
          THEN /\ req' = req
               /\ ev' = [op |-> "submit", sid |-> 0, arg |-> email,
                         res |-> "InvalidInput", device |-> device]
          ELSE IF ~SessionOpen(currentSession)
          THEN /\ req' = req
               /\ ev' = [op |-> "submit", sid |-> currentSession.sid,
                         arg |-> email, res |-> "SessionClosed",
                         device |-> device]
          ELSE /\ req' = [req EXCEPT ![r] =
                            [pc |-> "scan", email |-> email,
                             sessionName |-> currentSession.sessionName,
                             sid |-> currentSession.sid, device |-> device,
                             raw |-> rawEmail]]
               /\ ev' = StepEv
    /\ UNCHANGED << now, currentSession, sheet, nextSid, screen, stopReqs,
                    stopsSent, notified >>
    /\ UNCHANGED nodeVars

SubmitScan(r) ==
    /\ req[r].pc = "scan"
    /\ IF HasDuplicate(sheet, req[r].email, req[r].sessionName)
       THEN /\ req' = [req EXCEPT ![r] = IdleReq]
            /\ ev' = [op |-> "submit", sid |-> req[r].sid, arg |-> req[r].email,
                      res |-> "DuplicateSubmission", device |-> req[r].device]
       ELSE /\ req' = [req EXCEPT ![r].pc = "append"]
            /\ ev' = StepEv
    /\ UNCHANGED << now, currentSession, sheet, nextSid, screen, stopReqs,
                    stopsSent, notified >>
    /\ UNCHANGED nodeVars

\* the row handed to sheet.appendRow (sid, device and raw, the e-mail as it
\* was typed, are history, not columns)
NewRow(q, t, map) ==
                [email |-> q.email, roll |-> lookupRollNumber(q.email, map),
                 sessionName |-> q.sessionName, ts |-> t, sid |-> q.sid,
                 device |-> q.device, raw |-> q.raw]

\* a variant of appendRow that writes over the last row of the sheet
appendRowOverLast(rows, row) ==
    IF rows = <<>> THEN << row >> ELSE [rows EXCEPT ![Len(rows)] = row]

\* Sheet.appendRow: the new row is written after the last row that has content
appendRow(rows, row) == Append(rows, row)

SubmitAppend(r, map) ==
    /\ req[r].pc = "append"
    /\ Len(sheet) < MaxRows
    /\ sheet' = appendRow(sheet, NewRow(req[r], now, map))
    /\ req' = [req EXCEPT ![r] = IdleReq]
    /\ ev' = [op |-> "submit", sid |-> req[r].sid, arg |-> req[r].email,
              res |-> "success", device |-> req[r].device]
    /\ UNCHANGED << now, currentSession, nextSid, screen, stopReqs, stopsSent,
                    notified >>
    /\ UNCHANGED nodeVars

\* ------------------------------------------------ HomeScreen.handleStart
\* The Home screen is in front only while no SessionScreen is mounted.  The
\* request and its answer are one step; navigation.navigate('Session', ...)
\* passes no sessionId, so the screen counts from its own mount time.
MountedScreen(sid, t) ==
    [mounted |-> TRUE, sid |-> sid, endTime |-> t + SESSION_DURATION_MS,
     isActive |-> TRUE, closing |-> FALSE, dialog |-> FALSE]

TeacherStart(sessionName) ==
    /\ ~screen.mounted
    /\ nextSid <= MaxSessions
    /\ LET trimmed == Trim(sessionName)
       IN IF trimmed = <<>>
          THEN /\ ev' = [op |-> "start", sid |-> 0, arg |-> sessionName,
                         res |-> "Required"]
               /\ UNCHANGED << currentSession, nextSid, screen >>
          ELSE /\ ServerStart(trimmed)
               /\ screen' = IF StartNameInvalid(trimmed) THEN screen
                            ELSE MountedScreen(nextSid, now)
    /\ UNCHANGED << now, sheet, req, stopReqs, stopsSent, notified >>
    /\ UNCHANGED nodeVars

\* ---------------------------------------------- SessionScreen.handleTerminate
\* handleTerminate(auto) past its guard: state updates, then the stop request
\* (route.params.sessionId is undefined, so it is POST /api/stop-session).
Terminate(auto, leave) ==
    /\ screen' = [screen EXCEPT !.isActive = FALSE, !.closing = TRUE,
                                !.dialog = IF leave THEN FALSE ELSE @]
    /\ stopReqs' = stopReqs \cup {[sid |-> screen.sid, auto |-> auto,
                                   leave |-> leave]}
    /\ stopsSent' = [stopsSent EXCEPT ![screen.sid] = @ + 1]
    /\ ev' = StepEv
    /\ UNCHANGED << now, currentSession, sheet, nextSid, req, notified >>
    /\ UNCHANGED nodeVars

\* the `if (!isActive && !auto) return` guard, on the isActive of the render
\* whose closure is being called
TerminateGuard(closureIsActive, auto) == ~(~closureIsActive /\ ~auto)

\* tick(): remaining <= 0
ScreenTick ==
    /\ TimerDue
    /\ TerminateGuard(screen.isActive, TRUE)
    /\ Terminate(TRUE, FALSE)

\* the Terminate button: rendered while isActive, disabled while closing;
\* an open Alert covers it
TerminateButton ==
    /\ screen.mounted /\ screen.isActive /\ ~screen.closing /\ ~screen.dialog
    /\ TerminateGuard(screen.isActive, FALSE)
    /\ Terminate(FALSE, FALSE)

\* goBack(): with isActive the three-button Alert opens, else navigate back
BackPressed ==
    /\ screen.mounted /\ ~screen.dialog
    /\ screen' = IF screen.isActive THEN [screen EXCEPT !.dialog = TRUE]
                 ELSE NoScreen
    /\ ev' = StepEv
    /\ UNCHANGED << now, currentSession, sheet, nextSid, req, stopReqs,
                    stopsSent, notified >>
    /\ UNCHANGED nodeVars

DialogCancel ==
    /\ screen.mounted /\ screen.dialog
    /\ screen' = [screen EXCEPT !.dialog = FALSE]
    /\ ev' = StepEv
    /\ UNCHANGED << now, currentSession, sheet, nextSid, req, stopReqs,
                    stopsSent, notified >>
    /\ UNCHANGED nodeVars

\* 'Leave Running': navigation.goBack() unmounts the screen; the effect
\* cleanup clears the interval
DialogLeaveRunning ==
    /\ screen.mounted /\ screen.dialog
    /\ screen' = NoScreen
    /\ ev' = StepEv
    /\ UNCHANGED << now, currentSession, sheet, nextSid, req, stopReqs,
                    stopsSent, notified >>
    /\ UNCHANGED nodeVars

\* 'Terminate' in the Alert: the onPress closure belongs to the render that
\* opened the Alert, in which isActive was true
DialogTerminate ==
    /\ screen.mounted /\ screen.dialog
    /\ TerminateGuard(TRUE, FALSE)
    /\ Terminate(FALSE, TRUE)

\* after the awaited stop: setClosing(false); the Alert's Terminate path then
\* calls navigation.goBack()
AfterStop(q) ==
    IF screen.mounted /\ screen.sid = q.sid
    THEN IF q.leave THEN NoScreen ELSE [screen EXCEPT !.closing = FALSE]
    ELSE screen

\* the stop request reaches the server: stopSession(), then the Alert
StopDeliver(q) ==
    /\ q \in stopReqs
    /\ stopReqs' = stopReqs \ {q}
    /\ currentSession' = StoppedState(currentSession)
    /\ ev' = [op |-> "stop", sid |-> q.sid, arg |-> <<>>,
              res |-> IF SessionOpen(currentSession) THEN "stopped" ELSE "noop"]
    /\ notified' = [notified EXCEPT ![q.sid] = @ + 1]
    /\ screen' = AfterStop(q)
    /\ UNCHANGED << now, sheet, nextSid, req, stopsSent >>
    /\ UNCHANGED nodeVars

\* fetch rejects: the catch branch shows the 'Warning' Alert
StopFail(q) ==
    /\ q \in stopReqs
    /\ stopReqs' = stopReqs \ {q}
    /\ screen' = AfterStop(q)
    /\ ev' = [op |-> "stopFailed", sid |-> q.sid, arg |-> <<>>, res |-> "warning"]
    /\ UNCHANGED << now, currentSession, sheet, nextSid, req, stopsSent,
                    notified >>
    /\ UNCHANGED nodeVars

\* ------------------------------------------- attendance server (student API)
\* The server behind /api/student/login and /api/student/submit is deployed
\* separately; its registry, session table and ledger follow the design
\* document (sections 4.1, 4.3 and 4.4).
Identities == { <<"a", "@">>, <<"b", "@">> }

LoginInputs == { <<"a">>, <<" ", "A", "@">>, <<"b", "@">> }

Fingerprints == { deviceId(p) : p \in Phones }

BoundTo(identity) == { b \in bindingTable : b.identity = identity }

\* mutant of authorize: a different fingerprint takes the binding over
authorizeLastWins(identity, fp) ==
    IF BoundTo(identity) = {} THEN "bound-now"
    ELSE IF \E b \in BoundTo(identity) : b.fp = fp THEN "already-authorized"
    ELSE "bound-now"

\* authorize(identity, deviceFingerprint): the verdict
authorize(identity, fp) ==
    IF BoundTo(identity) = {} THEN "bound-now"
    ELSE IF \E b \in BoundTo(identity) : b.fp = fp THEN "already-authorized"
    ELSE "mismatch"

\* authorize: the registry afterwards (from: the caller, kept as history)
Bind(identity, fp, from) ==
    IF authorize(identity, fp) = "bound-now"
    THEN bindingTable \cup {[identity |-> identity, fp |-> fp, from |-> from]}
    ELSE bindingTable

NodeHasRecord(code, identity) ==
    \E row \in nLedger : row.code = code /\ row.identity = identity

\* mutant of SubmitVerdict: the duplicate check placed before the device check
SubmitVerdictDupFirst(code, identity, fp) ==
    IF code \notin Codes \/ nSessions[code] \in {"None", "Deleted"}
    THEN "SessionNotFound"
    ELSE IF nSessions[code] # "Active" THEN "SessionExpired"
    ELSE IF NodeHasRecord(code, identity) THEN "DuplicateSubmission"
    ELSE IF authorize(identity, fp) = "mismatch" THEN "DeviceMismatch"
    ELSE "accepted"

\* submit(sessionId, identity, deviceFingerprint): steps 1 to 3
SubmitVerdict(code, identity, fp) ==
    IF code \notin Codes \/ nSessions[code] \in {"None", "Deleted"}
    THEN "SessionNotFound"
    ELSE IF nSessions[code] # "Active" THEN "SessionExpired"
    ELSE IF authorize(identity, fp) = "mismatch" THEN "DeviceMismatch"
    ELSE IF NodeHasRecord(code, identity) THEN "DuplicateSubmission"
    ELSE "accepted"

\* submit as one critical section: bind on first use, append when accepted
NodeSubmit(code, identity, fp, from) ==
    LET v == SubmitVerdict(code, identity, fp)
    IN /\ bindingTable' = IF v \in {"accepted", "DuplicateSubmission"}
                          THEN Bind(identity, fp, from) ELSE bindingTable
       /\ nLedger' = IF v = "accepted"
                     THEN nLedger \cup {[code |-> code, identity |-> identity,
                                          fp |-> fp]}
                     ELSE nLedger
       /\ nev' = [op |-> "submit", code |-> code, identity |-> identity,
                  fp |-> fp, from |-> from, res |-> v]

\* create: the next session code becomes Active
NodeCreate ==
    /\ \E c \in Codes :
          /\ nSessions[c] = "None"
          /\ \A d \in Codes : d < c => nSessions[d] # "None"
          /\ nSessions' = [nSessions EXCEPT ![c] = "Active"]
          /\ nTimes' = [nTimes EXCEPT ![c] = [NoTimes EXCEPT !.createdAt = now]]
          /\ nev' = [NoNev EXCEPT !.op = "create", !.code = c]
    /\ UNCHANGED << storage, bindingTable, nLedger, hist >>
    /\ UNCHANGED appVars

\* the terminal transition, claimed once: state and stop time of session c
ClaimTerminal(c, cause, t) ==
    /\ nSessions' = [nSessions EXCEPT ![c] = IF @ = "Active" THEN cause ELSE @]
    /\ nTimes' = [nTimes EXCEPT ![c] =
                    IF nSessions[c] = "Active"
                    THEN [@ EXCEPT !.stopped = TRUE, !.stoppedAt = t] ELSE @]

\* stop: Active to Stopped, nothing else
NodeStop(c) ==
    /\ nSessions[c] # "None"
    /\ ClaimTerminal(c, "Stopped", now)
    /\ nev' = [NoNev EXCEPT !.op = "stop", !.code = c]
    /\ UNCHANGED << storage, bindingTable, nLedger, hist >>
    /\ UNCHANGED appVars

\* POST /api/student/submit from a client that is not one of the phones' apps
ApiStudentSubmit(code, identity, fp) ==
    /\ NodeSubmit(code, identity, fp, "api")
    /\ UNCHANGED << storage, nSessions >>
    /\ UNCHANGED histVars
    /\ UNCHANGED appVars

\* ---------------------------------------- StudentLoginScreen.handleLogin
Includes(s, c) == \E i \in 1..Len(s) : s[i] = c

\* mutant of LoginFormShown: the form is shown although a student is saved
LoginFormShownAlways(p) == TRUE

\* checkExistingStudent: a saved student is sent on to the scanner
LoginFormShown(p) == ~storage[p].saved

StudentLogin(p, email) ==
    /\ LoginFormShown(p)
    /\ IF Trim(email) = <<>> \/ ~Includes(email, "@")
       THEN /\ nev' = [NoNev EXCEPT !.op = "login", !.from = p,
                                    !.res = "Invalid Email"]
            /\ UNCHANGED << storage, bindingTable >>
       ELSE LET identity == Trim(ToLowerCase(email))
                verdict == authorize(identity, deviceId(p))
            IN /\ bindingTable' = Bind(identity, deviceId(p), p)
               /\ storage' = IF verdict = "mismatch" THEN storage
                             ELSE [storage EXCEPT ![p] =
                                     [saved |-> TRUE, email |-> identity,
                                      deviceId |-> deviceId(p)]]
               /\ nev' = [op |-> "login", code |-> 0, identity |-> identity,
                          fp |-> deviceId(p), from |-> p, res |-> verdict]
    /\ UNCHANGED << nSessions, nLedger >>
    /\ UNCHANGED histVars
    /\ UNCHANGED appVars

\* ------------------------------------ StudentScannerScreen.processQRData
\* A scanned attendance QR: the request carries the saved e-mail and deviceId.
StudentScan(p, code) ==
    /\ storage[p].saved
    /\ NodeSubmit(code, storage[p].email, storage[p].deviceId, p)
    /\ UNCHANGED << storage, nSessions >>
    /\ UNCHANGED histVars
    /\ UNCHANGED appVars

\* ------------------------------- attendance server: history and deletion
\* Sections 4.1, 4.2 and 4.6 of the design document.
Existing(sess, c) == sess[c] \in {"Active", "Stopped", "Expired"}

WithinRetention(times, c, t) == t - times[c].createdAt <= RETENTION_MS

\* one element of the answer of GET /api/history (SessionItem)
HistoryItem(sess, times, c) ==
    [id |-> c, createdAt |-> times[c].createdAt, stopped |-> times[c].stopped,
     stoppedAt |-> times[c].stoppedAt, active |-> sess[c] = "Active"]

\* listByOwner: the sessions still within the retention window
listByOwner(sess, times, t) ==
    { HistoryItem(sess, times, c) :
        c \in { d \in Codes : Existing(sess, d) /\ WithinRetention(times, d, t) } }

\* mutant of RemoveRows: the sessions go, their rows stay
RemoveRowsKeepAll(ids) == nLedger

\* the cascade: the ledger without the rows of the sessions in ids
RemoveRows(ids) == { row \in nLedger : row.code \notin ids }

\* mutant of BindingsAfterDelete: a binding goes with the last row of its
\* identity
BindingsAfterDeleteCascade(ids) ==
    { b \in bindingTable :
        \E row \in nLedger : row.identity = b.identity /\ row.code \notin ids }

\* device bindings are independent of sessions: deletion keeps them all
BindingsAfterDelete(ids) == bindingTable

\* deleteMany(ids): missing ids are passed over
DeleteSessions(ids, op) ==
    /\ bindingTable' = BindingsAfterDelete(ids)
    /\ nSessions' = [c \in Codes |->
                       IF c \in ids /\ Existing(nSessions, c) THEN "Deleted"
                       ELSE nSessions[c]]
    /\ nLedger' = RemoveRows(ids)
    /\ nev' = [NoNev EXCEPT !.op = op,
                            !.res = IF \E row \in nLedger : row.code \in ids
                                    THEN "cascaded" ELSE "deleted"]

\* the expiry timer armed by create, firing at createdAt + fixedDuration
NodeExpire(c) ==
    /\ nSessions[c] = "Active"
    /\ now >= nTimes[c].createdAt + SESSION_DURATION_MS
    /\ ClaimTerminal(c, "Expired", nTimes[c].createdAt + SESSION_DURATION_MS)
    /\ nev' = [NoNev EXCEPT !.op = "expire", !.code = c]
    /\ UNCHANGED << storage, bindingTable, nLedger, hist >>
    /\ UNCHANGED appVars

\* the retention sweep
NodeSweep ==
    LET old == { c \in Codes : Existing(nSessions, c)
                                /\ ~WithinRetention(nTimes, c, now) }
    IN /\ old # {}
       /\ DeleteSessions(old, "sweep")
       /\ UNCHANGED << storage, nTimes, hist >>
       /\ UNCHANGED appVars

\* ------------------------------------------------------- HistoryScreen
\* useState(Date.now()) and the fetchHistory() of the mount effect
HistoryOpen ==
    /\ ~hist.mounted
    /\ hist' = [NoHistory EXCEPT !.mounted = TRUE, !.now = now,
                                 !.sessions = listByOwner(nSessions, nTimes, now)]
    /\ nev' = [NoNev EXCEPT !.op = "history"]
    /\ UNCHANGED << storage, bindingTable, nSessions, nLedger, nTimes >>
    /\ UNCHANGED appVars

\* the refresh button: fetchHistory()
HistoryRefresh ==
    /\ hist.mounted /\ ~hist.selectMode
    /\ hist' = [hist EXCEPT !.sessions = listByOwner(nSessions, nTimes, now)]
    /\ nev' = [NoNev EXCEPT !.op = "history"]
    /\ UNCHANGED << storage, bindingTable, nSessions, nLedger, nTimes >>
    /\ UNCHANGED appVars

\* setInterval(() => setNow(Date.now()), 1000), armed while an item is active
HistoryTimer ==
    /\ hist.mounted
    /\ \E item \in hist.sessions : item.active
    /\ hist.now # now
    /\ hist' = [hist EXCEPT !.now = now]
    /\ nev' = [NoNev EXCEPT !.op = "render"]
    /\ UNCHANGED << storage, bindingTable, nSessions, nLedger, nTimes >>
    /\ UNCHANGED appVars

\* handleLongPress(id)
HistoryLongPress(id) ==
    /\ hist.mounted /\ ~hist.selectMode
    /\ \E item \in hist.sessions : item.id = id
    /\ hist' = [hist EXCEPT !.selectMode = TRUE, !.selected = {id}]
    /\ nev' = [NoNev EXCEPT !.op = "select"]
    /\ UNCHANGED << storage, bindingTable, nSessions, nLedger, nTimes >>
    /\ UNCHANGED appVars

\* toggleSelect(id), reached by a press in select mode
HistoryToggleSelect(id) ==
    /\ hist.mounted /\ hist.selectMode
    /\ \E item \in hist.sessions : item.id = id
    /\ hist' = [hist EXCEPT !.selected = IF id \in @ THEN @ \ {id}
                                         ELSE @ \cup {id}]
    /\ nev' = [NoNev EXCEPT !.op = "select"]
    /\ UNCHANGED << storage, bindingTable, nSessions, nLedger, nTimes >>
    /\ UNCHANGED appVars

\* renderItem: the 'End' row is rendered when item.stoppedAt is set
ShowsEnd(item) == item.stopped

\* renderItem: the 'Running' row
ShowsRunning(item) == ~item.stopped /\ item.active

\* formatDuration(item.createdAt, item.stoppedAt), in whole seconds
formatDuration(item) ==
    ((IF item.stopped THEN item.stoppedAt ELSE hist.now) - item.createdAt) \div 1000

\* exitSelectMode() and the fetchHistory() that follows a request
AfterRequest(sess, times) ==
    [hist EXCEPT !.selectMode = FALSE, !.selected = {},
                 !.sessions = listByOwner(sess, times, now)]

\* handleDeleteSelected, confirmed: POST /api/sessions/delete-many
HistoryDeleteSelected ==
    /\ hist.mounted
    /\ hist.selected # {}
    /\ DeleteSessions(hist.selected, "delete")
    /\ hist' = AfterRequest(nSessions', nTimes)
    /\ UNCHANGED << storage, nTimes >>
    /\ UNCHANGED appVars

\* handleClearAll, confirmed: POST /api/sessions/clear-all
HistoryClearAll ==
    /\ hist.mounted
    /\ DeleteSessions(Codes, "clear")
    /\ hist' = AfterRequest(nSessions', nTimes)
    /\ UNCHANGED << storage, nTimes >>
    /\ UNCHANGED appVars

\* stopSession(item), confirmed: POST /api/sessions/:id/stop
HistoryStop(id) ==
    /\ hist.mounted /\ ~hist.selectMode
    /\ \E item \in hist.sessions : item.id = id /\ item.active
    /\ ClaimTerminal(id, "Stopped", now)
    /\ hist' = [hist EXCEPT !.sessions = listByOwner(nSessions', nTimes', now)]
    /\ nev' = [NoNev EXCEPT !.op = "stop", !.code = id]
    /\ UNCHANGED << storage, bindingTable, nLedger >>
    /\ UNCHANGED appVars

\* the header's Back button outside select mode: navigation.goBack()
HistoryClose ==
    /\ hist.mounted /\ ~hist.selectMode
    /\ hist' = NoHistory
    /\ nev' = [NoNev EXCEPT !.op = "history"]
    /\ UNCHANGED << storage, bindingTable, nSessions, nLedger, nTimes >>
    /\ UNCHANGED appVars

\* --------------------------------------------- Code.gs: read-only queries
\* getStatus(): { session: getSessionState() }
getStatus == currentSession

\* getResponses(sessionFilter): the rows whose 'Session Name' is the filter,
\* every row when the filter is missing or empty
getResponses(sessionFilter) ==
    IF sessionFilter = <<>> THEN sheet
    ELSE SelectSeq(sheet, LAMBDA row : row.sessionName = sessionFilter)

\* ------------------------------------------------- StudentScannerScreen
\* QR payloads and image contents that reach the screen.
QrInputs == { <<"/", "s", "/", "x">>, <<"/", "s", "/">>, <<"x", "/">> }

\* [a-zA-Z0-9_-] over the characters of QrInputs
IsCodeChar(c) == c \in {"s", "x"}

\* data.match(/\/s\/([a-zA-Z0-9_-]+)/)
QrMatch(data) ==
    \E i \in 1..Len(data) :
        /\ i + 3 <= Len(data)
        /\ data[i] = "/" /\ data[i + 1] = "s" /\ data[i + 2] = "/"
        /\ IsCodeChar(data[i + 3])

\* the screen renders the camera and the buttons once permission is granted
Rendered == scanner.hasPermission = "true"

\* an Alert is on top of the screen: the buttons under it cannot be pressed
DialogUp == \E t \in Tasks : scanner.tasks[t].pc \in {"alert", "errAlert", "pickerAlert"}

\* mount effect: permissions, then the saved student (else back to login)
ScannerMount(cameraGranted, locationGranted, saved) ==
    /\ scanner.hasPermission = "null"
    /\ scanner' = [scanner EXCEPT
          !.hasPermission = IF cameraGranted /\ locationGranted THEN "true"
                            ELSE "false",
          !.studentInfo = saved]
    /\ UNCHANGED restVars

\* processQRData up to its first await: an unmatched payload arms the 3 s
\* timer and returns, a matched one asks for the location
processQRData(via, data) ==
    IF ~QrMatch(data)
    THEN [pc |-> "timer", via |-> via, data |-> data]
    ELSE [pc |-> "locating", via |-> via, data |-> data]

processQRDataMessage(data) ==
    IF ~QrMatch(data) THEN "Invalid QR code scanned. Try again."
    ELSE "Getting Location..."

\* a variant of the catch of handleBarcodeScanned that leaves `scanned` set
handleBarcodeScannedCatchKeep(s, t) ==
    [s EXCEPT !.message = "Network error. Try scanning again.",
              !.tasks[t].pc = "errAlert"]

\* handleBarcodeScanned, catch: Alert 'Network Error', setScanned(false)
handleBarcodeScannedCatch(s, t) ==
    [s EXCEPT !.scanned = FALSE,
              !.message = "Network error. Try scanning again.",
              !.tasks[t].pc = "errAlert"]

\* processImageWithServer, catch and 'No QR Found': Alert, setScanned(false)
processImageFailed(s, t) ==
    [s EXCEPT !.scanned = FALSE, !.message = "Ready to scan",
              !.tasks[t].pc = "errAlert"]

\* an exception leaving processQRData reaches the catch of its caller
Thrown(s, t) ==
    IF s.tasks[t].via = "barcode" THEN handleBarcodeScannedCatch(s, t)
    ELSE processImageFailed(s, t)

\* CameraView onBarcodeScanned={scanned ? undefined : handleBarcodeScanned}
BarcodeScanned(t, data) ==
    /\ Rendered
    /\ ~scanner.scanned
    /\ scanner.studentInfo
    /\ scanner.tasks[t].pc = "idle"
    /\ scanner' = [scanner EXCEPT !.scanned = TRUE,
                                  !.message = processQRDataMessage(data),
                                  !.tasks[t] = processQRData("barcode", data)]
    /\ UNCHANGED restVars

\* Location.getCurrentPositionAsync({ accuracy: High }) settles
LocationFirst(t, ok) ==
    /\ scanner.tasks[t].pc = "locating"
    /\ scanner' = IF ok
                  THEN [scanner EXCEPT !.message = "Submitting Attendance...",
                                       !.tasks[t].pc = "submitting"]
                  ELSE [scanner EXCEPT
                           !.message = "Failed to get Location. Retrying...",
                           !.tasks[t].pc = "retrying"]
    /\ UNCHANGED restVars

\* the retry with accuracy Balanced settles; its rejection is not caught here
LocationRetry(t, ok) ==
    /\ scanner.tasks[t].pc = "retrying"
    /\ scanner' = IF ok
                  THEN [scanner EXCEPT !.message = "Submitting Attendance...",
                                       !.tasks[t].pc = "submitting"]
                  ELSE Thrown(scanner, t)
    /\ UNCHANGED restVars

\* what POST /api/student/submit can come back with
SubmitOutcomes == {"success", "failure", "unparsable", "rejects"}

\* fetch and res.text() settle
SubmitAnswered(t, outcome) ==
    /\ scanner.tasks[t].pc = "submitting"
    /\ scanner' =
          CASE outcome = "success" ->
                  [scanner EXCEPT !.message = "Success! Ready to scan again.",
                                  !.tasks[t].pc = "alert"]
            [] outcome = "failure" ->
                  [scanner EXCEPT !.message = "Failed. Try scanning again.",
                                  !.tasks[t].pc = "alert"]
            [] OTHER -> Thrown(scanner, t)
    /\ UNCHANGED restVars

\* the button of the result Alert: onPress: () => setScanned(false)
AlertPressed(t) ==
    /\ scanner.tasks[t].pc = "alert"
    /\ scanner' = [scanner EXCEPT !.scanned = FALSE, !.tasks[t] = IdleTask]
    /\ UNCHANGED restVars

\* an Alert without buttons of its own is closed
AlertClosed(t) ==
    /\ scanner.tasks[t].pc \in {"errAlert", "pickerAlert"}
    /\ scanner' = [scanner EXCEPT !.tasks[t] = IdleTask]
    /\ UNCHANGED restVars

\* setTimeout(() => setScanned(false), 3000) fires
ScanTimerFired(t) ==
    /\ scanner.tasks[t].pc = "timer"
    /\ scanner' = [scanner EXCEPT !.scanned = FALSE, !.tasks[t] = IdleTask]
    /\ UNCHANGED restVars

\* uploadFromGallery / takePictureFromCamera up to the await of the picker
PickerPressed(kind) ==
    /\ Rendered
    /\ ~DialogUp
    /\ scanner.picker = "none"
    /\ ~scanner.scanned
    /\ scanner.studentInfo
    /\ scanner' = [scanner EXCEPT !.picker = kind]
    /\ UNCHANGED restVars

PickerOutcomes == {"canceled", "asset", "throws"}

\* the picker settles: nothing on cancel; setScanned(true) and the upload on
\* an asset; the handler's own catch when the picker rejects
PickerResult(t, outcome, data) ==
    /\ scanner.picker # "none"
    /\ outcome # "canceled" => scanner.tasks[t].pc = "idle"
    /\ scanner' =
          CASE outcome = "canceled" -> [scanner EXCEPT !.picker = "none"]
            [] outcome = "asset" ->
                  [scanner EXCEPT
                      !.picker = "none", !.scanned = TRUE,
                      !.message = "Uploading image for scanning...",
                      !.tasks[t] = [pc |-> "decoding", via |-> "image",
                                    data |-> data]]
            [] OTHER ->
                  [scanner EXCEPT
                      !.picker = "none", !.scanned = FALSE,
                      !.message = "Ready to scan",
                      !.tasks[t] = [pc |-> "pickerAlert", via |-> "image",
                                    data |-> <<>>]]
    /\ UNCHANGED restVars

DecodeOutcomes == {"found", "none", "rejects"}

\* POST /api/student/decode-qr settles
DecodeAnswered(t, outcome) ==
    /\ scanner.tasks[t].pc = "decoding"
    /\ scanner' =
          IF outcome = "found"
          THEN [scanner EXCEPT
                   !.message = processQRDataMessage(scanner.tasks[t].data),
                   !.tasks[t] = processQRData("image", scanner.tasks[t].data)]
          ELSE processImageFailed(scanner, t)
    /\ UNCHANGED restVars

\* ----------------------------------------------------------- specifications
ServerNext ==
    \/ \E n \in NameInputs : ApiStartSession(n)
    \/ ApiStopSession

SubmitNext(RS, ES, MS, DS) ==
    \/ \E r \in RS, e \in ES, n \in StudentNameInputs, d \in DS :
          SubmitBegin(r, e, n, d)
    \/ \E r \in RS : SubmitScan(r)
    \/ \E r \in RS, m \in MS : SubmitAppend(r, m)

ScreenNext ==
    \/ \E n \in NameInputs : TeacherStart(n)
    \/ ScreenTick
    \/ TerminateButton
    \/ BackPressed
    \/ DialogCancel
    \/ DialogLeaveRunning
    \/ DialogTerminate
    \/ \E q \in stopReqs : StopDeliver(q)
    \/ \E q \in stopReqs : StopFail(q)

\* the submission ledger under overlapping requests (clock at rest)
NextLedger == ServerNext \/ SubmitNext(Reqs, EmailInputs, {"ok"}, {"d1"})

SpecLedger == Init /\ [][NextLedger]_vars

\* the teacher's session screen, the clock and one submitter
NextScreen == ClockTick \/ ServerNext \/ ScreenNext \/ SubmitNext({1}, EmailInputs, {"ok"}, {"d1"})

SpecScreen == Init /\ [][NextScreen]_vars

\* the stores over the retention window
NextRetention == ClockTick \/ ClockJump \/ ServerNext \/ SubmitNext({1}, EmailInputs, {"ok"}, {"d1"})

SpecRetention == Init /\ [][NextRetention]_vars

\* one submitter and the roll map in each of its states
NextLookup == ServerNext \/ SubmitNext({1}, EmailInputs, RollMapStates, {"d1"})

SpecLookup == Init /\ [][NextLookup]_vars

\* one submitter at a time, from either device
NextOrder == ServerNext \/ SubmitNext({1}, EmailInputs, {"ok"}, Devices)

SpecOrder == Init /\ [][NextOrder]_vars

\* one submitter typing the same e-mails in different letter case
NextResolve == ServerNext \/ SubmitNext({1}, CaseEmailInputs, {"ok"}, {"d1"})

SpecResolve == Init /\ [][NextResolve]_vars

\* the teacher's session screen and the session state alone
NextSession == ClockTick \/ ServerNext \/ ScreenNext

SpecSession == Init /\ [][NextSession]_vars

\* the same, with what the runtime guarantees: the clock advances, a due
\* interval callback runs, and every stop request is answered or fails
FairSession ==
    /\ WF_vars(ClockTick)
    /\ WF_vars(ScreenTick)
    /\ WF_vars(\E q \in stopReqs : StopDeliver(q) \/ StopFail(q))

SpecSessionFair == SpecSession /\ FairSession

\* the student app and the student API
NextDevice ==
    \/ NodeCreate
    \/ \E c \in Codes : NodeStop(c)
    \/ \E p \in Phones, e \in LoginInputs : StudentLogin(p, e)
    \/ \E p \in Phones, c \in Codes : StudentScan(p, c)
    \/ \E c \in Codes, i \in Identities, f \in Fingerprints : ApiStudentSubmit(c, i, f)

SpecDevice == Init /\ [][NextDevice]_vars

HistoryNext ==
    \/ HistoryOpen
    \/ HistoryRefresh
    \/ HistoryTimer
    \/ \E id \in Codes : HistoryLongPress(id)
    \/ \E id \in Codes : HistoryToggleSelect(id)
    \/ HistoryDeleteSelected
    \/ HistoryClearAll
    \/ \E id \in Codes : HistoryStop(id)
    \/ HistoryClose

\* the server's session table and ledger under the history screen, the
\* expiry timer and the retention sweep
NextHistory ==
    \/ ClockTick \/ ClockJump
    \/ NodeCreate
    \/ \E c \in Codes : NodeExpire(c)
    \/ NodeSweep
    \/ \E c \in Codes : ApiStudentSubmit(c, <<"a", "@">>, deviceId("p1"))
    \/ HistoryNext

SpecHistory == Init /\ [][NextHistory]_vars

\* the device bindings under session deletion, stop, expiry and the sweep
NextBinding ==
    \/ ClockTick \/ ClockJump
    \/ NodeCreate
    \/ \E c \in Codes : NodeStop(c)
    \/ \E c \in Codes : NodeExpire(c)
    \/ NodeSweep
    \/ \E c \in Codes, f \in Fingerprints : ApiStudentSubmit(c, <<"a", "@">>, f)
    \/ HistoryOpen
    \/ \E id \in Codes : HistoryLongPress(id)
    \/ HistoryDeleteSelected
    \/ HistoryClearAll

SpecBinding == Init /\ [][NextBinding]_vars

\* the whole system
Next ==
    \/ ClockTick \/ ClockJump \/ ServerNext \/ ScreenNext
    \/ SubmitNext(Reqs, EmailInputs \cup CaseEmailInputs, RollMapStates, Devices)
    \/ NextDevice
    \/ \E c \in Codes : NodeExpire(c)
    \/ NodeSweep
    \/ HistoryNext

Spec == Init /\ [][Next]_vars

\* ------------------------------------------------------------------ claims
IsActiveSession(s) == SessionOpen(currentSession) /\ currentSession.sid = s

\* C1: for every session and identity at most one row exists in the ledger,
\* also when submissions for the same pair overlap.
C1_AtMostOneRecord ==
    \A i, j \in 1..Len(sheet) :
        (i # j) => ~(sheet[i].sid = sheet[j].sid /\ sheet[i].email = sheet[j].email)

\* C2: a submit whose session check runs once the session's ten minutes have
\* elapsed is rejected; it is never admitted to the duplicate scan.
C2_ExpiredSessionRejects ==
    [][\A r \in Reqs :
          (req[r].pc = "idle" /\ req'[r].pc = "scan")
              => now < currentSession.startedAt + SESSION_DURATION_MS]_vars

\* C3: starting or stopping one session never changes whether a different
\* session is active.
C3_SessionsIndependent ==
    [][\A s \in Sids :
          (IsActiveSession(s) /\ ev'.op \in {"start", "stop"} /\ ev'.sid # s)
              => IsActiveSession(s)']_vars

\* C4 as stated: a submit for a bound identity that carries a different
\* fingerprint is answered DeviceMismatch, whatever session it names.
C4_AlwaysDeviceMismatch ==
    (nev.op = "submit"
       /\ \E b \in bindingTable : b.identity = nev.identity /\ b.fp # nev.fp)
        => nev.res = "DeviceMismatch"

\* C4 amended: such a submit is never accepted, and it is answered
\* DeviceMismatch whenever the session it names is Active.
C4_MismatchNeverAccepted ==
    (nev.op = "submit"
       /\ \E b \in bindingTable : b.identity = nev.identity /\ b.fp # nev.fp)
        => /\ nev.res # "accepted"
           /\ nSessions[nev.code] = "Active" => nev.res = "DeviceMismatch"

\* C4 witness: an identity that submitted in session 1 is refused in session 2
\* with another fingerprint.
C4_Witness ==
    /\ nev.op = "submit" /\ nev.res = "DeviceMismatch" /\ nev.code = 2
    /\ \E row \in nLedger :
          /\ row.code = 1
          /\ row.identity = nev.identity
          /\ row.fp # nev.fp

\* C8: the registry holds at most one binding per identity, a binding is never
\* removed or replaced, and a mismatch leaves the registry as it was.
C8_OneImmutableBinding ==
    [][/\ bindingTable \subseteq bindingTable'
       /\ \A b, c \in bindingTable' : b.identity = c.identity => b = c
       /\ nev'.res \in {"mismatch", "DeviceMismatch"}
             => bindingTable' = bindingTable]_vars

\* C8 witness: a login with a second fingerprint for a bound identity was
\* answered mismatch.
C8_Witness ==
    /\ nev.op = "login" /\ nev.res = "mismatch"
    /\ \E b \in bindingTable : b.identity = nev.identity /\ b.fp # nev.fp

\* C9: a submission made from a phone for an identity that was bound from a
\* phone is accepted only when it is the same phone.
C9_SinglePhysicalDevice ==
    (nev.op = "submit" /\ nev.res = "accepted" /\ nev.from \in Phones)
        => \A b \in bindingTable :
              (b.identity = nev.identity /\ b.from \in Phones)
                  => b.from = nev.from

\* C5: a stop that finds the stored session already closed (by a manual stop
\* or by the timer's stop) leaves the stored session exactly as it was and
\* answers without an error.
C5_StopOnTerminalIsNoop ==
    [][(ev'.op = "stop" /\ currentSession.present /\ ~currentSession.active)
          => (currentSession' = currentSession /\ ev'.res = "noop")]_vars

\* C5 witness: a started session, closed, has been stopped once more.
C5_Witness ==
    /\ ev.op = "stop" /\ ev.res = "noop"
    /\ currentSession.hasName /\ ~currentSession.active

\* C6: for one session screen, the timer and the manual Terminate together
\* send one stop request and show one closing alert.
C6_SingleTransition ==
    \A s \in Sids : stopsSent[s] <= 1 /\ notified[s] <= 1

\* C7: no session older than the retention window is surfaced by getStatus,
\* and no row of such a session by getResponses.
C7_NothingBeyondRetention ==
    /\ (getStatus.present /\ getStatus.hasName)
          => now - getStatus.startedAt <= RETENTION_MS
    /\ \A n \in {Trim(x) : x \in NameInputs} :
          \A i \in 1..Len(getResponses(n)) :
              now - getResponses(n)[i].ts <= RETENTION_MS

\* C10: a start whose name is empty after trimming is refused, registers no
\* session and leaves the stored session and the ledger as they were.
C10_EmptyNameRejected ==
    [][(ev'.op = "start" /\ Trim(ev'.arg) = <<>>)
          => /\ ev'.res \in {"InvalidInput", "Required"}
             /\ currentSession' = currentSession
             /\ nextSid' = nextSid
             /\ sheet' = sheet]_vars

\* C10 witness: a blank name was sent to the server while a session was
\* running.
C10_Witness ==
    /\ ev.op = "start" /\ ev.res = "InvalidInput" /\ ev.arg = <<" ">>
    /\ SessionOpen(currentSession)

\* the design's error kind for an answer of handleStudentSubmission
ErrorKind(res) ==
    CASE res = "SessionClosed" -> "SessionExpired"
      [] res = "InvalidInput" -> "InvalidInput"
      [] res = "DuplicateSubmission" -> "DuplicateSubmission"
      [] OTHER -> "none"

\* C11: a submit refused at the session check is answered SessionNotFound
\* when no session is stored and SessionExpired when the stored session is
\* not active.
C11_NotFoundOrExpired ==
    (ev.op = "submit" /\ ev.res = "SessionClosed")
        => ErrorKind(ev.res) = IF currentSession.present THEN "SessionExpired"
                               ELSE "SessionNotFound"

Sentinels == {"NOT FOUND", "NO MAP", "LOOKUP ERROR"}

\* C12: a submission that has passed the other checks is recorded whatever
\* the lookup yields; when the e-mail is not in the roll map, or the map cannot
\* be read, the new row carries a sentinel in the roll column.
C12_LookupNeverRejects ==
    [][\A r \in Reqs :
          (req[r].pc = "append" /\ req'[r].pc # "append")
              => /\ ev'.res = "success"
                 /\ Len(sheet') = Len(sheet) + 1
                 /\ sheet'[Len(sheet')].email = req[r].email
                 /\ \/ sheet'[Len(sheet')].roll \in Sentinels
                    \/ /\ LookupFrom(1, req[r].email) # "NOT FOUND"
                       /\ sheet'[Len(sheet')].roll = LookupFrom(1, req[r].email)]_vars

\* C12 witness: an e-mail absent from the roll map was recorded with the
\* NOT FOUND sentinel.
C12_Witness ==
    /\ ev.op = "submit" /\ ev.res = "success"
    /\ Len(sheet) > 0
    /\ sheet[Len(sheet)].email = ev.arg
    /\ LookupFrom(1, ev.arg) = "NOT FOUND"
    /\ sheet[Len(sheet)].roll = "NOT FOUND"

\* C13: the stored session carries a stop timestamp exactly when it is no
\* longer active.
C13_StoppedAtIffTerminal ==
    currentSession.present
        => (("stoppedAt" \in DOMAIN currentSession) <=> ~currentSession.active)

\* C14: no row of the server's ledger refers to a session that was deleted
\* (by delete-many, clear-all or the retention sweep).
C14_DeleteCascades ==
    \A row \in nLedger : Existing(nSessions, row.code)

\* C14 witness: a deletion has just removed the rows of a deleted session.
C14_Witness ==
    /\ nev.op \in {"delete", "clear", "sweep"} /\ nev.res = "cascaded"
    /\ \E c \in Codes : nSessions[c] = "Deleted"

ErrorResults == {"InvalidInput", "Required", "SessionClosed", "DuplicateSubmission"}

\* C15: a request answered with an error leaves the stored session and the
\* sheet exactly as they were.
C15_ErrorsChangeNothing ==
    [][ev'.res \in ErrorResults
          => (currentSession' = currentSession /\ sheet' = sheet)]_vars

\* C15 witness: a second submission for a recorded pair was refused.
C15_Witness ==
    /\ ev.op = "submit" /\ ev.res = "DuplicateSubmission"
    /\ \E i \in 1..Len(sheet) : sheet[i].email = ev.arg /\ sheet[i].sid = ev.sid

C17_VisualCap ==
    \A item \in hist.sessions :
        (hist.mounted /\ hist.now - item.createdAt >= SESSION_DURATION_MS)
            => /\ ShowsEnd(item)
               /\ formatDuration(item) <= SESSION_DURATION_MS \div 1000

\* C18: a session that is active is eventually no longer active, whether or
\* not a manual stop is issued and whether or not the teacher stays on the
\* session screen.
C18_EventuallyTerminal ==
    SessionOpen(currentSession) ~> ~SessionOpen(currentSession)

\* C19: a session that has been stopped is never active again, and no row is
\* recorded for it from then on.  The stored state and the sheet know a
\* session by its name.
C19_TerminalForever ==
    [][(currentSession.present /\ currentSession.hasName /\ ~currentSession.active)
          => /\ ~(SessionOpen(currentSession')
                    /\ currentSession'.sessionName = currentSession.sessionName)
             /\ Len(sheet') > Len(sheet)
                   => sheet'[Len(sheet')].sessionName # currentSession.sessionName]_vars

\* C20: a submit that passes the session check, for an e-mail already
\* recorded in the session from another device, is answered DeviceMismatch
\* and not DuplicateSubmission.
C20_DeviceBeforeDuplicate ==
    (/\ ev.op = "submit"
     /\ ev.res \notin {"InvalidInput", "SessionClosed"}
     /\ \E i \in 1..Len(sheet) :
           /\ sheet[i].sid = ev.sid
           /\ sheet[i].email = ev.arg
           /\ sheet[i].device # ev.device)
        => ErrorKind(ev.res) = "DeviceMismatch"

C22_ListBySession ==
    (currentSession.present /\ currentSession.hasName)
        => getResponses(currentSession.sessionName)
             = SelectSeq(sheet, LAMBDA row : row.sid = currentSession.sid)

\* C23: deleting sessions, stopping them, their expiry and the retention
\* sweep leave the device bindings as they were, and a bound identity is
\* still refused from another device in an Active session afterwards.
C23_BindingsOutliveSessions ==
    [][/\ nev'.op \in {"delete", "clear", "sweep", "stop", "expire"}
             => bindingTable' = bindingTable
       /\ (/\ nev'.op = "submit"
           /\ nSessions[nev'.code] = "Active"
           /\ \E b \in bindingTable :
                 b.identity = nev'.identity /\ b.fp # nev'.fp)
             => nev'.res = "DeviceMismatch"]_vars

\* C23 witness: the session in which an identity was bound has been deleted
\* with its rows, and the identity is refused from another device.
C23_Witness ==
    /\ nev.op = "submit" /\ nev.res = "DeviceMismatch"
    /\ \E c \in Codes : nSessions[c] = "Deleted"
    /\ \A row \in nLedger : row.identity # nev.identity

\* C24: the attendance sheet is append-only.  Every step of the backend
\* (a submission at any of its stages, startSession, stopSession) leaves each
\* row that is already in the sheet where it is and as it is: the sheet
\* after the step begins with the sheet before it, and the only growth is
\* one row added at the end by an accepted submission.
C24_LedgerAppendOnly ==
    [][/\ Len(sheet') >= Len(sheet)
       /\ SubSeq(sheet', 1, Len(sheet)) = sheet
       /\ Len(sheet') > Len(sheet)
             => /\ Len(sheet') = Len(sheet) + 1
                /\ ev'.op = "submit" /\ ev'.res = "success"
       /\ ev'.op \in {"start", "stop"} => sheet' = sheet]_vars

\* a second row has just been appended after a session change: the first row
\* has lived through a start or a stop and through another submission
C24_Witness ==
    /\ Len(sheet) = 2
    /\ ev.op = "submit" /\ ev.res = "success"
    /\ sheet[1].sid # sheet[2].sid

\* C25: stopSession called while no session is registered registers none.
\* If getSessionState() answers null before the call, then getStatus still
\* answers { session: null } after it.
C25_StopCreatesNoSession ==
    [][(ev'.op = "stop" /\ ~currentSession.present) => ~getStatus'.present]_vars

\* C26: a row of one session never causes a duplicate rejection in another
\* session.  Whenever a submission is answered 'already marked', the sheet
\* holds a row of the same e-mail that was recorded in the very session the
\* submission was made to, also when an earlier session had the same name.
C26_NoCrossSessionDuplicate ==
    (ev.op = "submit" /\ ev.res = "DuplicateSubmission")
        => \E i \in 1..Len(sheet) :
              sheet[i].email = ev.arg /\ sheet[i].sid = ev.sid

\* the student's scanner screen
NextScanner ==
    \/ \E c \in BOOLEAN, l \in BOOLEAN, s \in BOOLEAN : ScannerMount(c, l, s)
    \/ \E t \in Tasks, d \in QrInputs : BarcodeScanned(t, d)
    \/ \E t \in Tasks, ok \in BOOLEAN : LocationFirst(t, ok)
    \/ \E t \in Tasks, ok \in BOOLEAN : LocationRetry(t, ok)
    \/ \E t \in Tasks, o \in SubmitOutcomes : SubmitAnswered(t, o)
    \/ \E t \in Tasks : AlertPressed(t)
    \/ \E t \in Tasks : AlertClosed(t)
    \/ \E t \in Tasks : ScanTimerFired(t)
    \/ \E k \in {"gallery", "camera"} : PickerPressed(k)
    \/ \E t \in Tasks, o \in PickerOutcomes, d \in QrInputs : PickerResult(t, o, d)
    \/ \E t \in Tasks, o \in DecodeOutcomes : DecodeAnswered(t, o)

SpecScanner == Init /\ [][NextScanner]_vars

\* Every await of a running scan settles, the 3 s timer fires and the user
\* answers the dialogs; scans, button presses and the pickers are up to the
\* user.
FairScanner ==
    \A t \in Tasks :
        /\ WF_vars(\E ok \in BOOLEAN : LocationFirst(t, ok))
        /\ WF_vars(\E ok \in BOOLEAN : LocationRetry(t, ok))
        /\ WF_vars(\E o \in SubmitOutcomes : SubmitAnswered(t, o))
        /\ WF_vars(\E o \in DecodeOutcomes : DecodeAnswered(t, o))
        /\ WF_vars(ScanTimerFired(t))
        /\ WF_vars(AlertPressed(t))
        /\ WF_vars(AlertClosed(t))

SpecScannerFair == Init /\ [][NextScanner]_vars /\ FairScanner

\* an accepted scan whose handler has not yet reached its last setScanned
ScanRunning(t) ==
    scanner.tasks[t].pc \in
        {"decoding", "locating", "retrying", "submitting", "timer", "alert"}

\* an accepted scan whose outcome the user has not yet acknowledged
ScanUnacknowledged(t) == ScanRunning(t) \/ scanner.tasks[t].pc = "errAlert"

\* the attendance submission of a scan is under way
SubmissionInFlight(t) ==
    scanner.tasks[t].pc \in {"locating", "retrying", "submitting"}

\* C27: the scanner never has two attendance submissions in flight.  While a
\* scan has been accepted and its outcome is not yet acknowledged, no other
\* scan has a submission under way.
C27_OneSubmissionInFlight ==
    \A t1 \in Tasks, t2 \in Tasks :
        (t1 # t2 /\ ScanUnacknowledged(t1)) => ~SubmissionInFlight(t2)

\* C28: every accepted scan, whatever its outcome, is followed by the ready
\* state: its handler finishes and leaves scanned = false, given that awaits
\* settle and the user answers the dialogs.
C28_ScannerReadyAgain ==
    /\ \A t \in Tasks : ScanRunning(t) ~> (~ScanRunning(t) /\ ~scanner.scanned)
    /\ scanner.scanned ~> ~scanner.scanned

\* a gallery or photo scan went through to the server's answer, the user
\* pressed the button of the result dialog, and the scanner is ready again
C28_Witness ==
    /\ ~scanner.scanned
    /\ \A t \in Tasks : scanner.tasks[t] = IdleTask
    /\ scanner.message \in {"Success! Ready to scan again.",
                            "Failed. Try scanning again."}

\* C29: the session screen is never ahead of the server.  Whenever the screen
\* shows its session as CLOSED (isActive = false), the session is no longer
\* active on the server: not while the stop request is still on its way, and
\* not after the request has failed.
C29_DisplayNeverAhead ==
    (screen.mounted /\ ~screen.isActive) => ~IsActiveSession(screen.sid)
====
